---- MODULE Spec2Model ----
(***************************************************************************)
(* A model of the two components of the repository:                        *)
(*   - PipelineManager (chemportal/cuchemportal/pipeline/                  *)
(*     pipeline_manager.py): the CRUD facade over the database client;     *)
(*   - GenericCSVDataset and its descriptor subclasses                     *)
(*     (cuchem/cuchem/datasets/molecules_properties.py).                   *)
(* The two components never interact; each has its own specification       *)
(* (SpecPM, SpecDS) over the variables it uses.                            *)
(***************************************************************************)
EXTENDS Integers, Sequences, FiniteSets

VARIABLES
    \* ---- pipeline manager ----
    db,          \* the committed table of Pipeline records: id -> config or NoRecord
    prevDb,      \* the committed table as it was when the last call began
    usedSids,    \* the sessions opened by the calls made so far
    openSids,    \* the sessions opened and not yet released
    lastCall,    \* what the last PipelineManager call did
    \* ---- dataset descriptors ----
    file,        \* the rows of the backing CSV file, or NoFile when it is missing
    obj,         \* the descriptor object: <<>> before construction, <<fields>> after
    req,         \* the keyword arguments the constructor was called with
    last         \* the last operation on the descriptor and how it ended

vars == <<db, prevDb, usedSids, openSids, lastCall, file, obj, req, last>>
pmVars == <<db, prevDb, usedSids, openSids, lastCall>>
dsVars == <<file, obj, req, last>>

\* ------------------------------------------------------------------------
\* Generic helpers
\* ------------------------------------------------------------------------
None == <<>>
Some(x) == <<x>>
Range(s) == {s[i] : i \in DOMAIN s}
MaxOf(S) == CHOOSE m \in S : \A x \in S : x <= m

\* ========================================================================
\* Part 1: PipelineManager
\* ========================================================================

\* ---- bounds of the pipeline manager model ----
MaxCalls == 3
NumIds == 2

Ids == 1..NumIds
Confs == {"confA", "confB"}
NoRecord == "NoRecord"
Outcomes == {"ok", "IntegrityError", "OtherError"}
QueryOutcomes == {"ok", "OtherError"}

Event(e, s, out) == [e |-> e, s |-> s, out |-> out]

\* ---- the database client (cuchemportal.data.db_client, not among the sources) ----
\* A session works on a private copy of the committed table; commit publishes
\* the copy, rollback and release discard it.
Session(table, sid) ==
    [db |-> table, work |-> table, sid |-> sid, open |-> TRUE,
     log |-> <<Event("open", sid, "ok")>>]

insert(c, record, out) ==
    [c EXCEPT !.work = IF out = "ok" THEN [@ EXCEPT ![record.id] = record.conf] ELSE @,
              !.log = Append(@, Event("insert", c.sid, out))]

\* dirty: a failing update may already have changed the session's copy
update_record(c, id, new_config, out, dirty) ==
    [c EXCEPT !.work = IF (out = "ok" \/ dirty) /\ c.work[id] # NoRecord
                       THEN [@ EXCEPT ![id] = new_config] ELSE @,
              !.log = Append(@, Event("update_record", c.sid, out))]

query_by_id(c, id, out) ==
    [c EXCEPT !.log = Append(@, Event("query_by_id", c.sid, out))]

query_range(c, start_idx, n_rows, out) ==
    [c EXCEPT !.log = Append(@, Event("query_range", c.sid, out))]

delete(c, id, out) ==
    [c EXCEPT !.work = IF out = "ok" THEN [@ EXCEPT ![id] = NoRecord] ELSE @,
              !.log = Append(@, Event("delete", c.sid, out))]

commit(c, out) ==
    [c EXCEPT !.db = IF out = "ok" THEN c.work ELSE @,
              !.log = Append(@, Event("commit", c.sid, out))]

rollback(c) ==
    [c EXCEPT !.work = c.db,
              !.log = Append(@, Event("rollback", c.sid, "ok"))]

close(c) ==
    [c EXCEPT !.work = c.db, !.open = FALSE,
              !.log = Append(@, Event("close", c.sid, "ok"))]

\* The rows query_range returns: the half-open range [start, start + n) of the
\* stored records in id order.
RECURSIVE StoredIds(_, _)
StoredIds(table, i) ==
    IF i > NumIds THEN <<>>
    ELSE (IF table[i] # NoRecord THEN <<i>> ELSE <<>>) \o StoredIds(table, i + 1)

RangeRows(table, start_idx, n_rows) ==
    LET ids == StoredIds(table, 1)
    IN  SubSeq(ids, start_idx + 1,
               IF start_idx + n_rows < Len(ids) THEN start_idx + n_rows ELSE Len(ids))

\* ---- how a call ends ----
Returned(c, ret) == [c |-> c, result |-> "returned", ret |-> ret]
Raised(c, exc) == [c |-> c, result |-> exc, ret |-> None]

\* `with self.db_client.Session() as sess:` releases the session when the block
\* is left, by its end or by an exception.
WithExit(r) == [r EXCEPT !.c = close(r.c)]

\* ---- PipelineManager.create ----
\* faulty variant: the session is opened without `with` and closed by hand at the end
createNoWith(table, sid, ppln, o1, o2) ==
    LET c0 == Session(table, sid)
        c1 == insert(c0, ppln, o1)
        c2 == commit(c1, o2)
    IN  IF o1 # "ok" THEN Raised(c1, o1)
        ELSE IF o2 # "ok" THEN Raised(c2, o2)
        ELSE Returned(close(c2), Some(ppln.id))

\* faulty variant: the commit is forgotten
createNoCommit(table, sid, ppln, o1, o2) ==
    LET c0 == Session(table, sid)
        c1 == insert(c0, ppln, o1)
    IN  WithExit(IF o1 # "ok" THEN Raised(c1, o1)
                 ELSE Returned(c1, Some(ppln.id)))

create(table, sid, ppln, o1, o2) ==
    LET c0 == Session(table, sid)
        c1 == insert(c0, ppln, o1)
        c2 == commit(c1, o2)
    IN  WithExit(IF o1 # "ok" THEN Raised(c1, o1)
                 ELSE IF o2 # "ok" THEN Raised(c2, o2)
                 ELSE Returned(c2, Some(ppln.id)))

\* ---- PipelineManager.update ----
\* The except clause of update: roll back, raise the same error.
\* faulty variant: the handler swallows the error after rolling back
updateExceptSwallow(c, e) == Returned(rollback(c), None)

updateExcept(c, e) == Raised(rollback(c), e)

update(table, sid, previous_id, new_conf, o1, o2, dirty) ==
    LET c0 == Session(table, sid)
        c1 == update_record(c0, previous_id, new_conf, o1, dirty)
        c2 == commit(c1, o2)
    IN  WithExit(IF o1 = "IntegrityError" THEN updateExcept(c1, o1)
                 ELSE IF o1 # "ok" THEN Raised(c1, o1)
                 ELSE IF o2 = "IntegrityError" THEN updateExcept(c2, o2)
                 ELSE IF o2 # "ok" THEN Raised(c2, o2)
                 ELSE Returned(c2, Some(previous_id)))

\* ---- PipelineManager.fetch_by_id ----
fetch_by_id(table, sid, pipeline_id, o1) ==
    LET c0 == Session(table, sid)
        c1 == query_by_id(c0, pipeline_id, o1)
    IN  WithExit(IF o1 # "ok" THEN Raised(c1, o1)
                 ELSE Returned(c1, IF table[pipeline_id] # NoRecord
                                   THEN Some(pipeline_id) ELSE None))

\* ---- PipelineManager.fetch_all ----
fetch_all(table, sid, start_index, num_rows, o1) ==
    LET c0 == Session(table, sid)
        c1 == query_range(c0, start_index, num_rows, o1)
    IN  WithExit(IF o1 # "ok" THEN Raised(c1, o1)
                 ELSE Returned(c1, RangeRows(table, start_index, num_rows)))

\* ---- PipelineManager.delete ----
pm_delete(table, sid, pipeline_id, o1, o2) ==
    LET c0 == Session(table, sid)
        c1 == delete(c0, pipeline_id, o1)
        c2 == commit(c1, o2)
    IN  WithExit(IF o1 # "ok" THEN Raised(c1, o1)
                 ELSE IF o2 # "ok" THEN Raised(c2, o2)
                 ELSE Returned(c2, Some(pipeline_id)))

\* ---- the calls as actions ----
NoCall == [op |-> "none", id |-> 0, log |-> <<>>, result |-> "none", ret |-> None,
           sid |-> 0, prior |-> {}]

\* The session a call gets from db_client.Session(): a new one each time.
NewSid == Cardinality(usedSids) + 1

Finish(op, id, r) ==
    /\ db' = r.c.db
    /\ prevDb' = db
    /\ usedSids' = usedSids \cup {NewSid}
    /\ openSids' = openSids \cup (IF r.c.open THEN {NewSid} ELSE {})
    /\ lastCall' = [op |-> op, id |-> id, log |-> r.c.log, result |-> r.result,
                    ret |-> r.ret, sid |-> NewSid, prior |-> usedSids]
    /\ UNCHANGED dsVars

CanCall == Cardinality(usedSids) < MaxCalls

Create ==
    /\ CanCall
    /\ \E id \in Ids, conf \in Confs, o1 \in Outcomes, o2 \in Outcomes :
          Finish("create", id, create(db, NewSid, [id |-> id, conf |-> conf], o1, o2))

Update ==
    /\ CanCall
    /\ \E id \in Ids, conf \in Confs, o1 \in Outcomes, o2 \in Outcomes, dirty \in BOOLEAN :
          Finish("update", id, update(db, NewSid, id, conf, o1, o2, dirty))

FetchById ==
    /\ CanCall
    /\ \E id \in Ids, o1 \in QueryOutcomes :
          Finish("fetch_by_id", id, fetch_by_id(db, NewSid, id, o1))

FetchAll ==
    /\ CanCall
    /\ \E start \in 0..NumIds, n \in 0..NumIds, o1 \in QueryOutcomes :
          Finish("fetch_all", start, fetch_all(db, NewSid, start, n, o1))

Delete ==
    /\ CanCall
    /\ \E id \in Ids, o1 \in Outcomes, o2 \in Outcomes :
          Finish("delete", id, pm_delete(db, NewSid, id, o1, o2))

NoFile == <<>>
NoLast == [op |-> "none", cls |-> "", err |-> "",
           columns |-> [isList |-> TRUE, names |-> <<>>], length_column |-> None]

InitPM ==
    /\ db \in [Ids -> Confs \cup {NoRecord}]
    /\ prevDb = db
    /\ usedSids = {}
    /\ openSids = {}
    /\ lastCall = NoCall
    /\ file = NoFile
    /\ obj = None
    /\ req = None
    /\ last = NoLast

NextPM == Create \/ Update \/ FetchById \/ FetchAll \/ Delete

SpecPM == InitPM /\ [][NextPM]_vars


\* ------------------------------------------------------------------------
\* Properties of the pipeline manager
\* ------------------------------------------------------------------------
Events(call, e) == {i \in DOMAIN call.log : call.log[i].e = e}
EventsOut(call, e, out) == {i \in Events(call, e) : call.log[i].out = out}
Actions == {"insert", "update_record", "query_by_id", "query_range", "delete"}
ActionOf(op) ==
    CASE op = "create" -> "insert"
      [] op = "update" -> "update_record"
      [] op = "fetch_by_id" -> "query_by_id"
      [] op = "fetch_all" -> "query_range"
      [] OTHER -> "delete"

IntegrityHit(call) ==
    /\ call.op = "update"
    /\ \/ EventsOut(call, "update_record", "IntegrityError") # {}
       \/ EventsOut(call, "commit", "IntegrityError") # {}

\* C1: when update_record, or the commit after it, fails with an integrity
\* violation inside update, the session is rolled back after the failure,
\* nothing is committed, the stored table is what it was before the call, and
\* the call ends by raising that integrity failure instead of returning.
C1_UpdateRollsBackAndReraises ==
    IntegrityHit(lastCall) =>
        /\ \E i \in Events(lastCall, "rollback") :
              \A j \in EventsOut(lastCall, "update_record", "IntegrityError")
                       \cup EventsOut(lastCall, "commit", "IntegrityError") : j < i
        /\ EventsOut(lastCall, "commit", "ok") = {}
        /\ db = prevDb
        /\ lastCall.result = "IntegrityError"
        /\ lastCall.ret = None

\* C1 witness: an update of a stored record whose commit raised the integrity
\* failure.
C1_Witness ==
    /\ lastCall.op = "update"
    /\ EventsOut(lastCall, "commit", "IntegrityError") # {}
    /\ prevDb[lastCall.id] # NoRecord

\* C2 (as stated): every operation that returns has opened a session, done
\* exactly one persistence action in it, and committed before returning.
C2_EveryOperationCommits ==
    lastCall.result = "returned" =>
        /\ Len(lastCall.log) = 4
        /\ lastCall.log[1].e = "open"
        /\ lastCall.log[2] = Event(ActionOf(lastCall.op), lastCall.sid, "ok")
        /\ lastCall.log[3] = Event("commit", lastCall.sid, "ok")
        /\ lastCall.log[4].e = "close"

\* C2 (amended): every operation opens a session and does exactly one
\* persistence action in it; create, update and delete commit after the action
\* succeeded and before returning, while fetch_by_id and fetch_all return
\* without any commit.
C2_MutatingOperationsCommit ==
    /\ lastCall.op # "none" =>
          /\ lastCall.log[1] = Event("open", lastCall.sid, "ok")
          /\ Cardinality({i \in DOMAIN lastCall.log : lastCall.log[i].e \in Actions}) = 1
          /\ lastCall.log[2].e = ActionOf(lastCall.op)
    /\ lastCall.result = "returned" /\ lastCall.op \in {"create", "update", "delete"} =>
          /\ Len(lastCall.log) = 4
          /\ lastCall.log[2].out = "ok"
          /\ lastCall.log[3] = Event("commit", lastCall.sid, "ok")
          /\ lastCall.log[4].e = "close"
    /\ lastCall.result = "returned" /\ lastCall.op \in {"fetch_by_id", "fetch_all"} =>
          /\ Len(lastCall.log) = 3
          /\ lastCall.log[2].out = "ok"
          /\ Events(lastCall, "commit") = {}
          /\ lastCall.log[3].e = "close"
          /\ db = prevDb

\* C2 witness: a create that returned and changed the stored table.
C2_Witness ==
    /\ lastCall.op = "create"
    /\ lastCall.result = "returned"
    /\ db # prevDb

MaxRows == 2
MaxCols == 2

\* ---- CSV cells: strings are sequences of characters, numbers are integers ----
Str(s) == [t |-> "str", s |-> s, n |-> 0]
Num(n) == [t |-> "num", s |-> <<>>, n |-> n]

\* ---- the CSV files ----
\* A file is described by its rows, each an index value and a SMILES string;
\* CsvOf gives the table a descriptor class reads from it.
IndexVals == {1, 3, 7}
SmilesVals == {<<"C">>, <<"C", "C", "O">>}
FileRows ==
    {r \in UNION {[1..n -> [idx : IndexVals, smi : SmilesVals]] : n \in 1..MaxRows} :
        \A i, j \in DOMAIN r : i # j => r[i].idx # r[j].idx}

TABLE_LIST == <<"chembl", "lipophilicity", "esol", "freesolv", "zinc15_test">>
Descriptors == Range(TABLE_LIST)

ChEMBLPropertiesCols ==
    <<"max_phase_for_ind", "mw_freebase", "alogp", "hba", "hbd", "psa", "rtb",
      "ro3_pass", "num_ro5_violations", "cx_logp", "cx_logd", "full_mwt",
      "aromatic_rings", "heavy_atoms", "qed_weighted", "mw_monoisotopic",
      "hba_lipinski", "hbd_lipinski", "num_lipinski_ro5_violations">>

\* The header of the file each class reads.
CsvColumns(cls) ==
    CASE cls = "generic" -> <<"idx", "canonical_smiles", "length", "logp">>
      [] cls = "chembl" -> <<"canonical_smiles">> \o ChEMBLPropertiesCols
      [] cls = "lipophilicity" -> <<"CMPD_CHEMBLID", "exp", "smiles">>
      [] cls = "esol" -> <<"Compound ID", "measured log solubility in mols per litre",
                           "smiles">>
      [] cls = "freesolv" -> <<"smiles", "y">>
      [] OTHER -> <<"index", "canonical_smiles", "length", "logp", "mw">>

CsvCell(col, r) ==
    CASE col \in {"canonical_smiles", "smiles"} -> Str(r.smi)
      [] col \in {"CMPD_CHEMBLID", "Compound ID"} -> Str(<<"I", "D">>)
      [] col = "length" -> Num(Len(r.smi))
      [] OTHER -> Num(r.idx)

\* ---- data frames ----
\* columns: the column names in order; index: the row labels; rows: the cells
\* of each row by column name.
Frame(columns, index, rows) == [columns |-> columns, index |-> index, rows |-> rows]

\* cudf.read_csv: the header's columns, a default index 0..n-1
read_csv(cls, rows) ==
    Frame(CsvColumns(cls),
          [i \in 1..Len(rows) |-> i - 1],
          [i \in 1..Len(rows) |-> [c \in Range(CsvColumns(cls)) |-> CsvCell(c, rows[i])]])

Positions(n) == [i \in 1..n |-> i]
TakeRows(df, pos) ==
    Frame(df.columns, [i \in 1..Len(pos) |-> df.index[pos[i]]],
          [i \in 1..Len(pos) |-> df.rows[pos[i]]])

\* data[cols] for a list of columns: those columns, in the order asked
SelectColumns(df, cols) ==
    Frame(cols, df.index,
          [i \in 1..Len(df.rows) |-> [c \in Range(cols) |-> df.rows[i][c]]])

HasColumns(df, cols) == Range(cols) \subseteq Range(df.columns)

\* data.set_index(col): the column becomes the row labels and leaves the table
set_index(df, col) ==
    LET rest == SelectSeq(df.columns, LAMBDA c : c # col)
    IN  Frame(rest, [i \in 1..Len(df.rows) |-> df.rows[i][col].n],
              [i \in 1..Len(df.rows) |-> [c \in Range(rest) |-> df.rows[i][c]]])

RECURSIVE SortedPositions(_, _)
SortedPositions(index, todo) ==
    IF todo = {} THEN <<>>
    ELSE LET p == CHOOSE p \in todo :
                    \A q \in todo : index[p] < index[q] \/ (index[p] = index[q] /\ p <= q)
         IN  <<p>> \o SortedPositions(index, todo \ {p})

sort_index(df) == TakeRows(df, SortedPositions(df.index, DOMAIN df.index))

\* data.loc[labels]: the rows with those labels, in the order of the labels
RECURSIVE LocPositions(_, _)
LocPositions(index, labels) ==
    IF labels = <<>> THEN <<>>
    ELSE SelectSeq(Positions(Len(index)), LAMBDA p : index[p] = Head(labels))
         \o LocPositions(index, Tail(labels))

loc(df, labels) == TakeRows(df, LocPositions(df.index, labels))

\* data.rename(columns={old: new}); a name that is no column is ignored
rename(df, old, new) ==
    LET nm(c) == IF c = old THEN new ELSE c
        back(c) == IF c = new /\ old \in Range(df.columns) THEN old ELSE c
        cols == [i \in 1..Len(df.columns) |-> nm(df.columns[i])]
    IN  Frame(cols, df.index,
              [i \in 1..Len(df.rows) |-> [c \in Range(cols) |-> df.rows[i][back(c)]]])

\* ---- the columns argument of load ----
\* Either a list of names or one bare name (a Python string).
ColList(names) == [isList |-> TRUE, names |-> names]
ColName(name) == [isList |-> FALSE, names |-> <<name>>]

\* s[0] of a Python string: its first character
FirstChar(name) ==
    CASE name = "smiles" -> "s"
      [] name = "canonical_smiles" -> "c"
      [] name = "CMPD_CHEMBLID" -> "C"
      [] name = "Compound ID" -> "C"
      [] name = "exp" -> "e"
      [] name = "logp" -> "l"
      [] name = "mw_freebase" -> "m"
      [] name = "y" -> "y"
      [] OTHER -> "b"

\* columns[0] as the subclasses' load evaluates it, on the argument as passed
Index0(columns) ==
    IF columns.isList THEN columns.names[1] ELSE FirstChar(columns.names[1])

\* ---- GenericCSVDataset.__init__ ----
GenericInit(name, properties_cols, index_col, index_selection, data_path) ==
    [name |-> name, data_path |-> data_path, data |-> None, max_len |-> None,
     properties |-> None, properties_cols |-> properties_cols,
     index_col |-> index_col, index_selection |-> index_selection,
     cls |-> "generic", table_name |-> ""]

\* ---- GenericCSVDataset._load_csv, step by step ----
LoadFail(err, max_len) ==
    [err |-> err, max_len |-> max_len, cleaned |-> Frame(<<>>, <<>>, <<>>), other |-> None]

\* `if self.index_col:` / `if self.index_selection:` / `if length_column:`
Truthy(opt) == opt # None /\ opt[1] # ""
TruthyList(opt) == opt # None /\ Len(opt[1]) > 0

\* lines 28-31: the index
IndexedFrame(self, data) ==
    IF Truthy(self.index_col) THEN sort_index(set_index(data, self.index_col[1]))
    ELSE data

\* lines 33-34: the index selection (a label that is no row label is a KeyError,
\* raised in _load_csv before this is applied)
SelectedFrame(self, data) ==
    IF TruthyList(self.index_selection) THEN loc(data, self.index_selection[1])
    ELSE data

\* faulty variant: the smallest value instead of the largest
SeriesMin(values) == CHOOSE m \in Range(values) : \A x \in Range(values) : m <= x

\* Series.max()
SeriesMax(values) == MaxOf(Range(values))

ColumnValues(data, col) == [i \in 1..Len(data.rows) |-> data.rows[i][col].n]
ColumnLengths(data, col) == [i \in 1..Len(data.rows) |-> Len(data.rows[i][col].s)]
AllStrings(data, col) == \A i \in 1..Len(data.rows) : data.rows[i][col].t = "str"

\* lines 41-51: the primary columns and the remaining ones
SplitColumns(data, cols, length_column, return_remaining, max_len) ==
    IF ~HasColumns(data, cols) THEN LoadFail("KeyError", max_len)
    ELSE LET remain_columns ==
                 SelectSeq(data.columns,
                           LAMBDA x : x \notin Range(cols)
                                      /\ (Truthy(length_column) => x # length_column[1]))
         IN  [err |-> "", max_len |-> max_len,
              cleaned |-> SelectColumns(data, cols),
              other |-> IF return_remaining
                        THEN Some(SelectColumns(data, remain_columns)) ELSE None]

\* lines 36-51: max_len is assigned before the columns are taken
MaxLenAndSplit(self, data, cols, length_column, return_remaining) ==
    IF Truthy(length_column)
    THEN IF ~HasColumns(data, length_column) THEN LoadFail("KeyError", self.max_len)
         ELSE SplitColumns(data, cols, length_column, return_remaining,
                           Some(SeriesMax(ColumnValues(data, length_column[1]))))
    ELSE IF Len(cols) = 1
    THEN IF ~HasColumns(data, cols) THEN LoadFail("KeyError", self.max_len)
         ELSE IF ~AllStrings(data, cols[1]) THEN LoadFail("TypeError", self.max_len)
         ELSE SplitColumns(data, cols, length_column, return_remaining,
                           Some(SeriesMax(ColumnLengths(data, cols[1]))))
    ELSE SplitColumns(data, cols, length_column, return_remaining, self.max_len)

\* _load_csv: the tables it returns, the value it leaves in self.max_len, and
\* the error it raises, if any
_load_csv(self, csv, columns, length_column, return_remaining) ==
    LET cols == columns.names
    IN  IF csv = NoFile THEN LoadFail("FileNotFoundError", self.max_len)
        ELSE LET raw == read_csv(self.cls, csv[1])
             IN  IF Truthy(self.index_col) /\ ~HasColumns(raw, self.index_col)
                 THEN LoadFail("KeyError", self.max_len)
                 ELSE LET data == IndexedFrame(self, raw)
                      IN  IF TruthyList(self.index_selection)
                             /\ ~(Range(self.index_selection[1]) \subseteq Range(data.index))
                          THEN LoadFail("KeyError", self.max_len)
                          ELSE MaxLenAndSplit(self, SelectedFrame(self, data), cols,
                                              length_column, return_remaining)

\* What a load leaves behind: the new fields of the object and the error raised.
LoadResult(self, err) == [self |-> self, err |-> err]

\* ---- GenericCSVDataset.load ----
GenericLoad(self, csv, columns, length_column) ==
    LET r == _load_csv(self, csv, columns, length_column, TRUE)
    IN  IF r.err # "" THEN LoadResult([self EXCEPT !.max_len = r.max_len], r.err)
        ELSE LoadResult([self EXCEPT !.max_len = r.max_len, !.data = Some(r.cleaned)], "")


\* ---- the descriptor classes ----
\* os.path.exists(self.data_path): the packaged file is there
PathExists(csv) == csv # NoFile

InitResult(self, err) == [self |-> self, err |-> err]

\* `assert os.path.exists(self.data_path)` at the end of each subclass __init__
AssertExists(self, csv) ==
    IF PathExists(csv) THEN InitResult(self, "") ELSE InitResult(self, "AssertionError")

\* faulty variant: the assertion is left out
ChEMBLInitNoAssert(kwargs, csv) ==
    InitResult([GenericInit(kwargs, None, None, None, None) EXCEPT
                   !.cls = "chembl",
                   !.name = "ChEMBL Approved Drugs (Phase III/IV)",
                   !.table_name = "chembl",
                   !.properties_cols = ChEMBLPropertiesCols,
                   !.data_path = "data/benchmark_ChEMBL_approved_drugs_physchem.csv"], "")

\* ChEMBLApprovedDrugsPhyschem.__init__: super().__init__(kwargs) passes the
\* dictionary of keyword arguments as the single positional argument, name
ChEMBLInit(kwargs, csv) ==
    AssertExists([GenericInit(kwargs, None, None, None, None) EXCEPT
                     !.cls = "chembl",
                     !.name = "ChEMBL Approved Drugs (Phase III/IV)",
                     !.table_name = "chembl",
                     !.properties_cols = ChEMBLPropertiesCols,
                     !.data_path = "data/benchmark_ChEMBL_approved_drugs_physchem.csv"],
                 csv)

LipophilicityInit(kwargs, csv) ==
    AssertExists([GenericInit(kwargs, None, None, None, None) EXCEPT
                     !.cls = "lipophilicity",
                     !.name = "MoleculeNet Lipophilicity",
                     !.table_name = "lipophilicity",
                     !.properties_cols = <<"logD">>,
                     !.data_path = "data/benchmark_MoleculeNet_Lipophilicity.csv"],
                 csv)

ESOLInit(kwargs, csv) ==
    AssertExists([GenericInit(kwargs, None, None, None, None) EXCEPT
                     !.cls = "esol",
                     !.name = "MoleculeNet ESOL",
                     !.table_name = "esol",
                     !.properties_cols = <<"log_solubility_(mol_per_L)">>,
                     !.data_path = "data/benchmark_MoleculeNet_ESOL.csv"],
                 csv)

FreeSolvInit(kwargs, csv) ==
    AssertExists([GenericInit(kwargs, None, None, None, None) EXCEPT
                     !.cls = "freesolv",
                     !.name = "MoleculeNet FreeSolv",
                     !.table_name = "freesolv",
                     !.properties_cols = <<"hydration_free_energy">>,
                     !.data_path = "data/benchmark_MoleculeNet_FreeSolv.csv"],
                 csv)

ZINC15Init(kwargs, csv) ==
    AssertExists([GenericInit(kwargs, None, None, None, None) EXCEPT
                     !.cls = "zinc15_test",
                     !.name = "ZINC15 Test Split 20K Samples",
                     !.table_name = "zinc15_test",
                     !.properties_cols = <<"logp", "mw">>,
                     !.index_col = Some("index"),
                     !.data_path = "data/benchmark_ZINC15_test_split.csv"],
                 csv)

\* ---- ChEMBLApprovedDrugsPhyschem.load ----
ChEMBLLoad(self, csv, columns) ==
    LET r == _load_csv(self, csv, columns, None, TRUE)
        kept == [self EXCEPT !.max_len = r.max_len]
    IN  IF r.err # "" THEN LoadResult(kept, r.err)
        ELSE IF ~HasColumns(r.other[1], self.properties_cols)
        THEN LoadResult(kept, "KeyError")
        ELSE LoadResult([kept EXCEPT
                            !.data = Some(r.cleaned),
                            !.properties = Some(SelectColumns(r.other[1],
                                                              self.properties_cols))], "")

\* ---- the load of the three MoleculeNet classes ----
\* They differ only in orig_property_name.
MoleculeNetLoad(self, csv, columns, orig_property_name) ==
    LET r == _load_csv(self, csv, columns, None, TRUE)
        kept == [self EXCEPT !.max_len = r.max_len]
    IN  IF r.err # "" THEN LoadResult(kept, r.err)
        ELSE LET data == rename(r.cleaned, Index0(columns), "canonical_smiles")
                 properties == rename(r.other[1], orig_property_name[1],
                                      self.properties_cols[1])
             IN  IF ~HasColumns(properties, self.properties_cols)
                 THEN LoadResult(kept, "KeyError")
                 ELSE LoadResult([kept EXCEPT
                                     !.data = Some(data),
                                     !.properties = Some(SelectColumns(properties,
                                                             self.properties_cols))], "")

LipophilicityLoad(self, csv, columns) == MoleculeNetLoad(self, csv, columns, <<"exp">>)

ESOLLoad(self, csv, columns) ==
    MoleculeNetLoad(self, csv, columns, <<"measured log solubility in mols per litre">>)

FreeSolvLoad(self, csv, columns) == MoleculeNetLoad(self, csv, columns, <<"y">>)

\* ---- ZINC15TestSplit.load ----
ZINC15Load(self, csv, columns, length_column) ==
    LET r == _load_csv(self, csv, columns, length_column, FALSE)
    IN  IF r.err # "" THEN LoadResult([self EXCEPT !.max_len = r.max_len], r.err)
        ELSE LoadResult([self EXCEPT !.max_len = r.max_len, !.data = Some(r.cleaned)], "")

\* ---- the arguments the callers pass ----
ArgNames(cls) ==
    CASE cls = "generic" -> {"canonical_smiles", "logp"}
      [] cls = "chembl" -> {"canonical_smiles", "mw_freebase"}
      [] cls = "lipophilicity" -> {"smiles", "CMPD_CHEMBLID", "exp"}
      [] cls = "esol" -> {"smiles", "Compound ID"}
      [] cls = "freesolv" -> {"smiles", "y"}
      [] OTHER -> {"canonical_smiles", "bogus"}

NameLists(cls) ==
    {l \in UNION {[1..n -> ArgNames(cls)] : n \in 1..MaxCols} :
        \A i, j \in DOMAIN l : i # j => l[i] # l[j]}

ColumnArgs(cls) == {ColName(n) : n \in ArgNames(cls)} \cup {ColList(l) : l \in NameLists(cls)}
LengthArgs == {None, Some("length")}
SelOptions == {None, Some(<<>>), Some(<<3>>)}
DescriptorSelOptions == {None, Some(<<3, 7>>)}
Kwargs(index_col, index_selection) ==
    [index_col |-> index_col, index_selection |-> index_selection]

\* ---- construction ----
Constructed(cls, kwargs, r) ==
    /\ obj' = IF r.err = "" THEN Some(r.self) ELSE None
    /\ req' = Some(kwargs)
    /\ last' = [NoLast EXCEPT !.op = "init", !.cls = cls, !.err = r.err]
    /\ UNCHANGED <<file, pmVars>>

ConstructGeneric ==
    /\ last.op = "none"
    /\ \E ic \in {None, Some("idx")}, sel \in SelOptions :
          Constructed("generic", Kwargs(ic, sel),
                      InitResult(GenericInit(None, None, ic, sel, "data.csv"), ""))

ConstructChEMBL ==
    /\ last.op = "none"
    /\ \E sel \in DescriptorSelOptions :
          Constructed("chembl", Kwargs(None, sel), ChEMBLInit(Kwargs(None, sel), file))

ConstructLipophilicity ==
    /\ last.op = "none"
    /\ \E sel \in DescriptorSelOptions :
          Constructed("lipophilicity", Kwargs(None, sel),
                      LipophilicityInit(Kwargs(None, sel), file))

ConstructESOL ==
    /\ last.op = "none"
    /\ \E sel \in DescriptorSelOptions :
          Constructed("esol", Kwargs(None, sel), ESOLInit(Kwargs(None, sel), file))

ConstructFreeSolv ==
    /\ last.op = "none"
    /\ \E sel \in DescriptorSelOptions :
          Constructed("freesolv", Kwargs(None, sel), FreeSolvInit(Kwargs(None, sel), file))

ConstructZINC15 ==
    /\ last.op = "none"
    /\ \E sel \in DescriptorSelOptions :
          Constructed("zinc15_test", Kwargs(None, sel), ZINC15Init(Kwargs(None, sel), file))

\* ---- load ----
Loaded(columns, length_column, r) ==
    /\ obj' = Some(r.self)
    /\ last' = [op |-> "load", cls |-> r.self.cls, err |-> r.err, columns |-> columns,
                length_column |-> length_column]
    /\ UNCHANGED <<file, req, pmVars>>

IsA(cls) == obj # None /\ obj[1].cls = cls

LoadGeneric ==
    /\ IsA("generic")
    /\ \E columns \in ColumnArgs("generic"), length_column \in LengthArgs :
          Loaded(columns, length_column, GenericLoad(obj[1], file, columns, length_column))

LoadChEMBL ==
    /\ IsA("chembl")
    /\ \E columns \in ColumnArgs("chembl") :
          Loaded(columns, None, ChEMBLLoad(obj[1], file, columns))

LoadLipophilicity ==
    /\ IsA("lipophilicity")
    /\ \E columns \in ColumnArgs("lipophilicity") :
          Loaded(columns, None, LipophilicityLoad(obj[1], file, columns))

LoadESOL ==
    /\ IsA("esol")
    /\ \E columns \in ColumnArgs("esol") :
          Loaded(columns, None, ESOLLoad(obj[1], file, columns))

LoadFreeSolv ==
    /\ IsA("freesolv")
    /\ \E columns \in ColumnArgs("freesolv") :
          Loaded(columns, None, FreeSolvLoad(obj[1], file, columns))

LoadZINC15 ==
    /\ IsA("zinc15_test")
    /\ \E columns \in ColumnArgs("zinc15_test"), length_column \in LengthArgs :
          Loaded(columns, length_column, ZINC15Load(obj[1], file, columns, length_column))

InitDS ==
    /\ file \in {NoFile} \cup {Some(r) : r \in FileRows}
    /\ obj = None
    /\ req = None
    /\ last = NoLast
    /\ db = [i \in Ids |-> NoRecord]
    /\ prevDb = db
    /\ usedSids = {}
    /\ openSids = {}
    /\ lastCall = NoCall

NextDS ==
    \/ ConstructGeneric \/ ConstructChEMBL \/ ConstructLipophilicity
    \/ ConstructESOL \/ ConstructFreeSolv \/ ConstructZINC15
    \/ LoadGeneric \/ LoadChEMBL \/ LoadLipophilicity
    \/ LoadESOL \/ LoadFreeSolv \/ LoadZINC15

SpecDS == InitDS /\ [][NextDS]_vars


\* ------------------------------------------------------------------------
\* Properties of the dataset descriptors
\* ------------------------------------------------------------------------
LoadedOk == last.op = "load" /\ last.err = ""

\* The object a load with the last arguments leaves when it is the first load
\* of a newly constructed descriptor with the same construction arguments.
Fresh(cls, kwargs) ==
    CASE cls = "generic" ->
            GenericInit(None, None, kwargs.index_col, kwargs.index_selection, "data.csv")
      [] cls = "chembl" -> ChEMBLInit(kwargs, file).self
      [] cls = "lipophilicity" -> LipophilicityInit(kwargs, file).self
      [] cls = "esol" -> ESOLInit(kwargs, file).self
      [] cls = "freesolv" -> FreeSolvInit(kwargs, file).self
      [] OTHER -> ZINC15Init(kwargs, file).self

LoadOf(self, columns, length_column) ==
    CASE self.cls = "generic" -> GenericLoad(self, file, columns, length_column)
      [] self.cls = "chembl" -> ChEMBLLoad(self, file, columns)
      [] self.cls = "lipophilicity" -> LipophilicityLoad(self, file, columns)
      [] self.cls = "esol" -> ESOLLoad(self, file, columns)
      [] self.cls = "freesolv" -> FreeSolvLoad(self, file, columns)
      [] OTHER -> ZINC15Load(self, file, columns, length_column)

FreshLoad == LoadOf(Fresh(last.cls, req[1]), last.columns, last.length_column).self

\* C4 (as stated): after any sequence of loads, data, properties and max_len are
\* those the last load alone produces on a newly constructed descriptor;
\* nothing, max_len in particular, is carried over from an earlier load.
C4_LoadReplacesEverything ==
    LoadedOk =>
        /\ obj[1].data = FreshLoad.data
        /\ obj[1].properties = FreshLoad.properties
        /\ obj[1].max_len = FreshLoad.max_len

\* C5 (as stated): a descriptor of the five classes is either UNLOADED (data,
\* properties and max_len all absent) or LOADED (data and max_len set,
\* properties set except for ZINC15), also after a load that failed.
Unloaded(o) == o.data = None /\ o.properties = None /\ o.max_len = None
FullyLoaded(o) ==
    /\ o.data # None
    /\ o.max_len # None
    /\ (o.properties # None) <=> (o.cls # "zinc15_test")

C5_TwoStates ==
    (obj # None /\ obj[1].cls \in Descriptors) => (Unloaded(obj[1]) \/ FullyLoaded(obj[1]))

\* C6 (as stated): a load with more than one primary column and no length
\* column ends with an error.
C6_MultiColumnNeedsLengthColumn ==
    (last.op = "load" /\ Len(last.columns.names) > 1 /\ last.length_column = None)
        => last.err # ""

\* C7 (as stated): a descriptor of the five classes constructed with
\* index_selection = S holds, after load, exactly the rows whose index value
\* is in S.
C7_IndexSelectionApplied ==
    (LoadedOk /\ last.cls \in Descriptors /\ req[1].index_selection # None)
        => Range(obj[1].data[1].index) =
              {l \in Range(IndexedFrame(obj[1], read_csv(last.cls, file[1])).index) :
                  l \in Range(req[1].index_selection[1])}

Exposed(cls, name) ==
    IF cls \in {"lipophilicity", "esol", "freesolv"} /\ name = "smiles"
    THEN "canonical_smiles" ELSE name

C9_ColumnsAsRequested ==
    LoadedOk =>
        /\ obj[1].data[1].columns =
              [i \in 1..Len(last.columns.names) |-> Exposed(last.cls, last.columns.names[i])]
        /\ obj[1].properties # None =>
              /\ obj[1].properties[1].columns = obj[1].properties_cols
              /\ obj[1].properties[1].index = obj[1].data[1].index

\* C10: after a successful load max_len is taken over the rows kept by the
\* index selection: the largest value of the length column when one is given,
\* and the largest string length of the one primary column when none is given.
RowLabel(o, p) ==
    IF o.index_col # None THEN CsvCell(o.index_col[1], file[1][p]) .n ELSE p - 1

KeptPositions(o) ==
    IF o.index_selection # None /\ o.index_selection[1] # <<>>
    THEN {p \in DOMAIN file[1] : RowLabel(o, p) \in Range(o.index_selection[1])}
    ELSE DOMAIN file[1]

C10_MaxLen ==
    LoadedOk =>
        /\ last.length_column # None =>
              obj[1].max_len =
                  Some(MaxOf({CsvCell(last.length_column[1], file[1][p]).n :
                                 p \in KeptPositions(obj[1])}))
        /\ (last.length_column = None /\ Len(last.columns.names) = 1) =>
              obj[1].max_len =
                  Some(MaxOf({Len(CsvCell(last.columns.names[1], file[1][p]).s) :
                                 p \in KeptPositions(obj[1])}))

\* C10 witness: a load with one primary column and no length column, after an
\* index selection that dropped the row with the longest string.
C10_Witness ==
    /\ LoadedOk
    /\ last.length_column = None
    /\ Len(last.columns.names) = 1
    /\ obj[1].index_selection = Some(<<3>>)
    /\ obj[1].max_len = Some(1)
    /\ \E p \in DOMAIN file[1] : Len(file[1][p].smi) = 3

====
